---- MODULE Spec2Model ----
(***************************************************************************)
(* Model of the tariff modeling service (src/app.py): the local tariff     *)
(* estimator, the external compliance adapter, the two-stage HS            *)
(* classification endpoint and the HTTP endpoints around them.             *)
(*                                                                         *)
(* Numbers are fixed point.  Money is in cents (799.99 USD = 79999), the   *)
(* percentage rates of calculate_tariff are in tenths of a percentage      *)
(* point (16.5 = 165), so a duty amount (customs value * rate / 100) is    *)
(* in thousandths of a cent.  The fractional rates of the compliance       *)
(* service are in hundredths (0.05 = 5).                                   *)
(***************************************************************************)
EXTENDS Integers, Sequences, FiniteSets, TLC

VARIABLES
    pc,          \* position of the request being served
    req,         \* the request: endpoint, credentials, JSON body
    resp,        \* the HTTP response given to the caller
    calls,       \* outbound HTTP calls made while serving the request, in order
    estimator,   \* invocations of calculate_tariff while serving the request
    adapter,     \* returns of call_global_compliance_api while serving the request
    local,       \* the handler's local variables kept across an outbound call
    env          \* the process environment (AVALARA_TOKEN, AVALARA_COMPANY_ID)

vars == <<pc, req, resp, calls, estimator, adapter, local, env>>

(***************************************************************************)
(* JSON values.  A key that is not in an object is Absent; a key holding   *)
(* null is Null.                                                           *)
(***************************************************************************)
Absent == [t |-> "absent"]
Null == [t |-> "null"]
Num(n) == [t |-> "num", n |-> n]
Str(s) == [t |-> "str", s |-> s]
Bool(b) == [t |-> "bool", b |-> b]

IsStr(v, s) == v.t = "str" /\ v.s = s

\* dict.get(key, default): the default only for a key that is not there
Get(data, key, default) == IF data[key].t = "absent" THEN default ELSE data[key]

\* Python truthiness of a JSON value
Truthy(v) ==
    CASE v.t = "absent" -> FALSE
      [] v.t = "null" -> FALSE
      [] v.t = "num" -> v.n # 0
      [] v.t = "str" -> v.s # ""
      [] v.t = "bool" -> v.b
      [] v.t = "arr" -> v.a # <<>>
      [] OTHER -> \E k \in DOMAIN v \ {"t"} : v[k].t # "absent"

\* type(v).__name__, as Python's error messages print it
PyTypeName(v) ==
    CASE v.t = "str" -> "str"
      [] v.t = "null" -> "NoneType"
      [] v.t = "bool" -> "bool"
      [] OTHER -> "int"

(***************************************************************************)
(* Configuration and reference data                                        *)
(***************************************************************************)
VALID_USER == "admin"
VALID_PASS == "password"

Cents(dollars, cents) == dollars * 100 + cents
Tenths(whole, tenth) == whole * 10 + tenth

\* HS_CODES: code -> baseline rate, in tenths of a percentage point
HS_CODES ==
    [c \in {"8517.62.00", "6109.10.00", "8471.30.01", "9503.00.00", "8528.72.64"} |->
        CASE c = "6109.10.00" -> Tenths(16, 5)
          [] c = "8528.72.64" -> Tenths(5, 0)
          [] OTHER -> Tenths(0, 0)]

\* HS_CODES: code -> description
HsDescription(c) ==
    CASE c = "8517.62.00" -> "Machines for reception, conversion of voice, image"
      [] c = "6109.10.00" -> "T-shirts, cotton"
      [] c = "8471.30.01" -> "Portable computers"
      [] c = "9503.00.00" -> "Tricycles, scooters, pedal cars, toys"
      [] c = "8528.72.64" -> "Reception apparatus for TV"

\* list(HS_CODES.keys()): the codes in the order of the table
HsCodeKeys == <<"8517.62.00", "6109.10.00", "8471.30.01", "9503.00.00", "8528.72.64">>

\* COUNTRIES: the code of each entry, in the order of the list
COUNTRIES ==
    <<"AT", "AU", "BE", "BR", "CA", "CN", "CZ", "DE", "DK", "ES", "FI", "FR", "GB", "GR",
      "HK", "ID", "IE", "IN", "IT", "JP", "KR", "MX", "MY", "NL", "NO", "PH", "PL", "PT",
      "RU", "SE", "SG", "TH", "TR", "US", "VN", "Not Specified">>

\* the US de minimis threshold, in dollars
DE_MINIMIS == 800

\* random.uniform(a, b): the two ends and the middle of the interval
uniform(a, b) == {a, (a + b) \div 2, b}

\* the draws one call of calculate_tariff can make
Draws ==
    [reciprocal : uniform(Tenths(0, 0), Tenths(5, 0)),
     chapter_301 : uniform(Tenths(7, 5), Tenths(25, 0)),
     spi : uniform(Tenths(0, 0), Tenths(10, 0)),
     ieepa : uniform(Tenths(10, 0), Tenths(25, 0))]

(***************************************************************************)
(* calculate_tariff                                                        *)
(***************************************************************************)
CooIn(coo, S) == coo.t = "str" /\ coo.s \in S

BaselineRate(hs_code) ==
    IF hs_code.t = "str" /\ hs_code.s \in DOMAIN HS_CODES THEN HS_CODES[hs_code.s] ELSE 0

ReciprocalRate(coo, rnd) == IF CooIn(coo, {"CN", "MX", "CA"}) THEN rnd.reciprocal ELSE 0

Chapter301Rate_anyOrigin(coo, rnd) == rnd.chapter_301

Chapter301Rate(coo, rnd) == IF CooIn(coo, {"CN"}) THEN rnd.chapter_301 ELSE 0

SpiRate_anyOrigin(coo, method, rnd) == IF IsStr(method, "preferential") THEN rnd.spi ELSE 0

SpiRate(coo, method, rnd) ==
    IF IsStr(method, "preferential") /\ CooIn(coo, {"MX", "CA", "VN"}) THEN rnd.spi ELSE 0

IeepaRate(coo, method, rnd) ==
    IF ~IsStr(method, "preferential") /\ CooIn(coo, {"CN", "RU"}) THEN rnd.ieepa ELSE 0

TotalTariffRate(hs_code, coo, method, rnd) ==
    BaselineRate(hs_code) + ReciprocalRate(coo, rnd) + Chapter301Rate(coo, rnd)
        + (IF IsStr(method, "preferential")
           THEN SpiRate(coo, method, rnd)
           ELSE IeepaRate(coo, method, rnd))

DeMinimisApplies_inclusive(customs_value) == customs_value <= Cents(DE_MINIMIS, 0)

DeMinimisApplies(customs_value) == customs_value < Cents(DE_MINIMIS, 0)

\* str(flag).lower()
BoolText(flag) == IF flag THEN "true" ELSE "false"

\* customs_value = cost_per_unit * quantity, in cents
CustomsValue(cost_per_unit, quantity) == cost_per_unit * quantity

TotalCost_withoutDuty(customs_value, duty_amount) == customs_value * 1000

\* total_cost = customs_value + duty_amount, in thousandths of a cent
TotalCost(customs_value, duty_amount) == customs_value * 1000 + duty_amount

\* cost_per_unit in cents, quantity a number; the result's duty_amount and
\* total_cost are in thousandths of a cent
calculate_tariff(hs_code, coo, vendor_country, cost_per_unit, quantity, method, rnd) ==
    LET total_tariff_rate == TotalTariffRate(hs_code, coo, method, rnd)
        customs_value == CustomsValue(cost_per_unit, quantity)
        exempt == DeMinimisApplies(customs_value)
        duty_amount == IF exempt THEN 0 ELSE customs_value * total_tariff_rate
        effective_tariff_rate == IF exempt THEN 0 ELSE total_tariff_rate
        result ==
            [vendor_country |-> vendor_country,
             country_of_origin |-> coo,
             cost_per_unit |-> cost_per_unit,
             quantity |-> quantity,
             customs_value |-> customs_value,
             baseline_tariff_rate |-> BaselineRate(hs_code),
             reciprocal_tariff_rate |-> ReciprocalRate(coo, rnd),
             chapter_301_tariff_rate |-> Chapter301Rate(coo, rnd),
             total_tariff_rate |-> effective_tariff_rate,
             duty_amount |-> duty_amount,
             total_cost |-> TotalCost(customs_value, duty_amount),
             DUTY_DEMINIMIS_APPLIED |-> BoolText(exempt)]
    IN  IF IsStr(method, "preferential")
        THEN result @@ [spi_tariff_rate |-> SpiRate(coo, method, rnd)]
        ELSE result @@ [ieepa_tariff_rate |-> IeepaRate(coo, method, rnd)]

(***************************************************************************)
(* Outbound HTTP calls and what can come back                              *)
(***************************************************************************)
Arr(a) == [t |-> "arr", a |-> a]

\* the longest duty-breakdown array an upstream response carries
MaxDuties == 2

Garbage == [parsable |-> FALSE, text |-> "<html>Bad Gateway</html>"]
Json(v) == [parsable |-> TRUE, value |-> v]

\* entries of calculationSummary.dutyGranularity
DutyEntries ==
    {[description |-> Str("X"), rate |-> Num(5), type |-> Str("STANDARD")],
     [description |-> Str("Y"), rate |-> Num(10), type |-> Str("PUNITIVE")],
     [description |-> Str("X"), rate |-> Num(10), type |-> Absent],
     [description |-> Absent, rate |-> Absent, type |-> Str("STANDARD")]}

DutyArrays == UNION {[1..n -> DutyEntries] : n \in 0..MaxDuties}

Summary(dg) == [t |-> "obj", dutyGranularity |-> dg]
Line(cs, hs) == [t |-> "obj", calculationSummary |-> cs, hsCode |-> hs]
Quote(lines) == [t |-> "obj", lines |-> lines]
Compliance(quote) == [t |-> "obj", quote |-> quote]
ApiResponse(gc) == [t |-> "obj", globalCompliance |-> gc]

LineHsCodes == {Absent, Str("6109100012")}

\* the JSON documents the compliance service can answer with
ComplianceDocuments ==
    {ApiResponse(Absent), ApiResponse(Arr(<<>>)),
     ApiResponse(Arr(<<Compliance(Absent)>>)),
     ApiResponse(Arr(<<Compliance(Quote(Absent))>>)),
     ApiResponse(Arr(<<Compliance(Quote(Arr(<<>>)))>>))}
    \cup {ApiResponse(Arr(<<Compliance(Quote(Arr(<<Line(cs, hs)>>)))>>)) :
            cs \in {Absent, Summary(Absent)}, hs \in LineHsCodes}
    \cup {ApiResponse(Arr(<<Compliance(Quote(Arr(<<Line(Summary(Arr(dg)), hs)>>)))>>)) :
            dg \in DutyArrays, hs \in LineHsCodes}

\* the JSON body of an error answer: an object without globalCompliance
ErrorDocument ==
    [t |-> "obj", error |-> Str("upstream rejected the request"), globalCompliance |-> Absent]

\* how an outbound call to the compliance service can end.  "transport" is a
\* connection error or a timeout: no response was received.  A 300 is a 3xx
\* answer the HTTP client never follows: it is the final response, body included.
ComplianceOutcomes ==
    {[kind |-> "transport"]}
    \cup [kind : {"response"}, status : {200}, body : {Garbage} \cup {Json(d) : d \in ComplianceDocuments}]
    \cup [kind : {"response"}, status : {201}, body : {Json(ApiResponse(Absent))}]
    \cup [kind : {"response"}, status : {300}, body : {Garbage, Json(ApiResponse(Absent))}]
    \cup [kind : {"response"}, status : {400, 401, 500}, body : {Garbage, Json(ErrorDocument)}]

RaisesForStatus_serverErrorsOnly(status) == 500 <= status /\ status < 600

\* Response.raise_for_status: an HTTPError for 4xx and 5xx
RaisesForStatus(status) == 400 <= status /\ status < 600

\* requests raises its own JSONDecodeError (a RequestException) for a body
\* that is no JSON; older releases raise a plain ValueError
JsonErrorClasses == {"RequestException", "Exception"}

TransportErrorText == "HTTPSConnectionPool: Max retries exceeded"
HttpErrorText(status) == ToString(status) \o " Error for url"
JsonErrorText == "Expecting value: line 1 column 1 (char 0)"

(***************************************************************************)
(* call_global_compliance_api                                              *)
(***************************************************************************)
\* str.replace(".", "")
RemoveDots(s) ==
    CASE s = "6109.10.00" -> "61091000"
      [] s = "8517.62.00" -> "85176200"
      [] OTHER -> s

\* str.lower() and str.upper() of a country code
Lower(s) == CASE s = "US" -> "us" [] s = "CA" -> "ca" [] OTHER -> s
Upper(s) == CASE s = "us" -> "US" [] s = "ca" -> "CA" [] OTHER -> s

\* str(x) of a float given in cents: 100.0, 12.5, 799.99
Digit2(n) == IF n < 10 THEN "0" \o ToString(n) ELSE ToString(n)
FloatText(c) ==
    ToString(c \div 100) \o "." \o
        (IF c % 10 = 0 THEN ToString((c % 100) \div 10) ELSE Digit2(c % 100))

\* get_avalara_auth_header
get_avalara_auth_header(token) ==
    IF ~Truthy(token)
    THEN [ok |-> FALSE, error |-> "Missing AVALARA_TOKEN in environment variables"]
    ELSE [ok |-> TRUE, value |-> "Basic " \o token.s]

\* int(AVALARA_COMPANY_ID)
CompanyId(id) ==
    CASE id.t = "null" ->
            [ok |-> FALSE,
             error |-> "int() argument must be a string, a bytes-like object or a real number, not 'NoneType'"]
      [] id.t = "str" /\ id.s = "123" -> [ok |-> TRUE, value |-> 123]
      [] OTHER ->
            [ok |-> FALSE, error |-> "invalid literal for int() with base 10: '" \o id.s \o "'"]

\* the request document, or the exception raised while building it
BuildPayload(a, e) ==
    LET auth == get_avalara_auth_header(e.AVALARA_TOKEN)
        company == CompanyId(e.AVALARA_COMPANY_ID)
    IN  IF ~auth.ok THEN [ok |-> FALSE, error |-> auth.error]
        ELSE IF ~company.ok THEN [ok |-> FALSE, error |-> company.error]
        ELSE IF a.import_country.t # "str"
        THEN [ok |-> FALSE, error |-> "'NoneType' object has no attribute 'lower'"]
        ELSE [ok |-> TRUE,
              payload |->
                [id |-> "TARIFF-MODEL-001",
                 companyId |-> company.value,
                 transactionDate |-> a.import_date,
                 shipFrom |-> a.vendor_country,
                 shipTo |-> Lower(a.import_country.s),
                 quantity |-> a.quantity,
                 preferenceProgramApplicable |-> a.spi_applicable,
                 description |-> a.description,
                 classificationCountry |-> Upper(a.import_country.s),
                 hscode |-> RemoveDots(a.hs_code),
                 price |-> FloatText(a.cost_per_unit),
                 coo |-> a.coo,
                 type |-> "QUOTE_MAXIMUM"]]

ExceptionResult_dropsPayload(error, payload) ==
    [success |-> FALSE, error |-> error, api_response |-> Null, request_payload |-> Null]

\* the return value when an exception other than a RequestException is caught
ExceptionResult(error, payload) ==
    [success |-> FALSE, error |-> error, api_response |-> Null, request_payload |-> payload]

FixedAuthenticationMessage == "Authentication failed. Please verify AVALARA_TOKEN in .env file."

ErrorDetails_keepsTransportText(status, text) == text

\* the error message of a failed call: the exception text, replaced for a 401
ErrorDetails(status, text) == IF status = 401 THEN FixedAuthenticationMessage ELSE text

\* e.response.json(), else e.response.text
ErrorResponse(body) == IF body.parsable THEN body.value ELSE Str(body.text)

\* the return value when a RequestException is caught
RequestExceptionResult(o, text, payload) ==
    IF o.kind = "response" /\ RaisesForStatus(o.status)
    THEN [success |-> FALSE,
          error |-> ErrorDetails(o.status, text),
          status_code |-> Num(o.status),
          error_response |-> ErrorResponse(o.body),
          api_response |-> Null,
          request_payload |-> payload]
    ELSE [success |-> FALSE,
          error |-> text,
          status_code |-> Null,
          error_response |-> Null,
          api_response |-> Null,
          request_payload |-> payload]

\* dict.get(key, default) on a parsed object
Field(obj, key, default) == IF obj[key].t = "absent" THEN default ELSE obj[key]

EmptyObject == [t |-> "obj", quote |-> Absent, lines |-> Absent, calculationSummary |-> Absent,
                dutyGranularity |-> Absent, hsCode |-> Absent]

\* the dutyGranularity array of the first line of the first quote, [] when
\* any level is missing or empty
DutyGranularity(api_response) ==
    LET gc == api_response.globalCompliance
    IN  IF gc.t = "arr" /\ Len(gc.a) > 0
        THEN LET quote == Field(gc.a[1], "quote", EmptyObject)
                 lines == Field(quote, "lines", Arr(<<>>))
             IN  IF Len(lines.a) > 0
                 THEN LET calculation_summary == Field(lines.a[1], "calculationSummary", EmptyObject)
                      IN  Field(calculation_summary, "dutyGranularity", Arr(<<>>)).a
                 ELSE <<>>
        ELSE <<>>

\* float(duty.get('rate', 0))
Rate(duty) == Field(duty, "rate", Num(0)).n

DutyLine_emptyDescription(duty) ==
    [description |-> Field(duty, "description", Str("")),
     rate |-> Rate(duty),
     rate_percent |-> Rate(duty) * 100,
     type |-> Field(duty, "type", Str(""))]

DutyLine(duty) ==
    [description |-> Field(duty, "description", Str("Unknown Duty")),
     rate |-> Rate(duty),
     rate_percent |-> Rate(duty) * 100,
     type |-> Field(duty, "type", Str(""))]

DutyLines_skipRepeated(dg) ==
    LET keep == {i \in 1..Len(dg) : \A j \in 1..(i - 1) : dg[j].description # dg[i].description}
    IN  [i \in 1..Cardinality(keep) |->
            DutyLine(dg[CHOOSE k \in keep : Cardinality({m \in keep : m <= k}) = i])]

\* one duty line per entry, in the order of the array
DutyLines(dg) == [i \in 1..Len(dg) |-> DutyLine(dg[i])]

RECURSIVE SumRates(_)
SumRates(lines) ==
    IF lines = <<>> THEN 0 ELSE lines[1].rate + SumRates(Tail(lines))

\* the return value for a 2xx response whose body was parsed
SuccessResult(a, api_response, payload) ==
    LET duty_lines == DutyLines(DutyGranularity(api_response))
        total_duty_rate == SumRates(duty_lines)
    IN  [success |-> TRUE,
         duty_lines |-> duty_lines,
         total_duty_rate |-> total_duty_rate,
         total_duty_rate_percent |-> total_duty_rate * 100,
         total_duty_amount |-> a.quantity * a.cost_per_unit * total_duty_rate,
         api_response |-> api_response,
         request_payload |-> payload]

\* what call_global_compliance_api returns once the outbound call has ended
\* with outcome o; jsonError is the class of the exception response.json()
\* raises for a body that is no JSON
ComplianceResult(a, payload, o, jsonError) ==
    IF o.kind = "transport"
    THEN RequestExceptionResult(o, TransportErrorText, payload)
    ELSE IF RaisesForStatus(o.status)
    THEN RequestExceptionResult(o, HttpErrorText(o.status), payload)
    ELSE IF ~o.body.parsable
    THEN IF jsonError = "RequestException"
         THEN RequestExceptionResult([kind |-> "transport"], JsonErrorText, payload)
         ELSE ExceptionResult(JsonErrorText, payload)
    ELSE SuccessResult(a, o.body.value, payload)

(***************************************************************************)
(* Responses                                                               *)
(***************************************************************************)
NoResp == [status |-> 0, body |-> [none |-> TRUE], headers |-> {}]
Reply(status, body) == [status |-> status, body |-> body, headers |-> {}]

(***************************************************************************)
(* POST /api/calculate                                                     *)
(***************************************************************************)
required_fields == <<"hs_code", "country_of_origin", "cost_per_unit", "quantity">>

MissingFields(data) == {i \in 1..Len(required_fields) : data[required_fields[i]].t = "absent"}

FirstMissing(data) ==
    required_fields[CHOOSE i \in MissingFields(data) : \A j \in MissingFields(data) : i <= j]

\* v <= 0 in Python: a comparison for numbers, a TypeError for str and None
LeZero(v) ==
    CASE v.t = "num" -> IF v.n <= 0 THEN "true" ELSE "false"
      [] v.t = "bool" -> IF v.b THEN "false" ELSE "true"
      [] OTHER -> "TypeError"

LeZeroError(v) ==
    "'<=' not supported between instances of '" \o PyTypeName(v) \o "' and 'int'"

CooNotSpecified_unchecked(data) == FALSE

\* data['country_of_origin'] == 'Not Specified'
CooNotSpecified(data) == IsStr(data.country_of_origin, "Not Specified")

\* the outcome of the handler body: the response and the estimator invocations
calculate(data, rnd) ==
    IF MissingFields(data) # {}
    THEN [resp |-> Reply(400, [error |-> "Missing required field: " \o FirstMissing(data)]),
          estimator |-> <<>>]
    ELSE IF CooNotSpecified(data)
    THEN [resp |-> Reply(400, [error |-> "Country of Origin cannot be 'Not Specified' for calculations"]),
          estimator |-> <<>>]
    ELSE IF LeZero(data.cost_per_unit) = "TypeError"
    THEN [resp |-> Reply(500, [error |-> LeZeroError(data.cost_per_unit)]), estimator |-> <<>>]
    ELSE IF LeZero(data.cost_per_unit) = "true"
    THEN [resp |-> Reply(400, [error |-> "Cost per unit must be greater than 0"]), estimator |-> <<>>]
    ELSE IF LeZero(data.quantity) = "TypeError"
    THEN [resp |-> Reply(500, [error |-> LeZeroError(data.quantity)]), estimator |-> <<>>]
    ELSE IF LeZero(data.quantity) = "true"
    THEN [resp |-> Reply(400, [error |-> "Quantity must be greater than 0"]), estimator |-> <<>>]
    ELSE LET method == Get(data, "calculation_method", Str("standard"))
             vendor_country == Get(data, "vendor_country", data.country_of_origin)
             args == [hs_code |-> data.hs_code, coo |-> data.country_of_origin,
                      vendor_country |-> vendor_country,
                      cost_per_unit |-> data.cost_per_unit.n, quantity |-> data.quantity.n,
                      calculation_method |-> method]
         IN  [resp |-> Reply(200, calculate_tariff(data.hs_code, data.country_of_origin,
                                                  vendor_country, data.cost_per_unit.n,
                                                  data.quantity.n, method, rnd)),
              estimator |-> <<args>>]

(***************************************************************************)
(* POST /calculate_vendor                                                  *)
(***************************************************************************)
\* float(x): numbers, and the text of a number
FloatOf(v) ==
    CASE v.t = "num" -> [ok |-> TRUE, value |-> v.n]
      [] v.t = "str" /\ v.s = "12.50" -> [ok |-> TRUE, value |-> Cents(12, 50)]
      [] v.t = "str" -> [ok |-> FALSE, error |-> "could not convert string to float: '" \o v.s \o "'"]
      [] OTHER -> [ok |-> FALSE, error |-> "float() argument must be a string or a real number, not 'NoneType'"]

\* int(x)
IntOf(v) ==
    CASE v.t = "num" -> [ok |-> TRUE, value |-> v.n]
      [] v.t = "str" /\ v.s = "5" -> [ok |-> TRUE, value |-> 5]
      [] v.t = "str" -> [ok |-> FALSE, error |-> "invalid literal for int() with base 10: '" \o v.s \o "'"]
      [] OTHER -> [ok |-> FALSE, error |-> "int() argument must be a string, a bytes-like object or a real number, not 'NoneType'"]

\* f"{x:.2f}%" of a number given in hundredths
Percent2(x) == ToString(x \div 100) \o "." \o Digit2(x % 100) \o "%"

\* an exception that leaves the handler: Flask answers 500
Unhandled(error) == Reply(500, [unhandled |-> error])

\* the arguments calculate_vendor reads from the body, or the exception
\* raised while reading them
VendorArguments(data) ==
    LET hs_code == Get(data, "hs_code", Str(""))
        cost == FloatOf(Get(data, "cost", Num(0)))
        quantity == IntOf(Get(data, "quantity", Num(1)))
    IN  IF hs_code.t # "str"
        THEN [ok |-> FALSE, error |-> "'NoneType' object has no attribute 'replace'"]
        ELSE IF ~cost.ok THEN [ok |-> FALSE, error |-> cost.error]
        ELSE IF ~quantity.ok THEN [ok |-> FALSE, error |-> quantity.error]
        ELSE [ok |-> TRUE,
              args |->
                [hs_code |-> RemoveDots(hs_code.s),
                 coo |-> Get(data, "coo", Null),
                 vendor_country |-> Get(data, "coo", Null),
                 cost_per_unit |-> cost.value,
                 quantity |-> quantity.value,
                 description |-> Get(data, "description", Str("")),
                 import_country |-> Get(data, "import_country", Str("US")),
                 spi_applicable |-> Get(data, "spi_applicable", Bool(FALSE)),
                 import_date |-> Get(data, "import_date", Str("2026-01-01"))]]

\* result.get(key): None for a key the result does not have
ResultGet(result, key) == IF key \in DOMAIN result THEN result[key] ELSE Null

\* the response calculate_vendor builds from the adapter's return value
VendorResponse(result) ==
    IF result.success
    THEN Reply(200,
            [success |-> TRUE,
             duty_lines |-> result.duty_lines,
             total_duty_rate |-> Percent2(result.total_duty_rate_percent),
             total_duty_amount |-> result.total_duty_amount,
             api_response |-> result.api_response,
             request_payload |-> ResultGet(result, "request_payload")])
    ELSE Reply(500,
            [success |-> FALSE,
             error |-> result.error,
             error_response |-> ResultGet(result, "error_response"),
             api_response |-> ResultGet(result, "api_response"),
             request_payload |-> ResultGet(result, "request_payload")])

(***************************************************************************)
(* POST /classify_hs                                                       *)
(***************************************************************************)
\* the JSON documents the classification service can answer with
DataObject(hs, question) == [t |-> "obj", hsCode |-> hs, currentQuestionInteraction |-> question]
Question == [t |-> "obj", name |-> Str("material")]

ClassifyDocuments ==
    {[t |-> "obj", data |-> Absent], [t |-> "obj", data |-> Null]}
    \cup {[t |-> "obj", data |-> DataObject(hs, q)] :
            hs \in {Absent, Str(""), Str("   "), Str("610910")}, q \in {Absent, Question}}

ClassifyOutcomes ==
    {[kind |-> "transport"]}
    \cup [kind : {"response"}, status : {200}, body : {Garbage} \cup {Json(d) : d \in ClassifyDocuments}]
    \cup [kind : {"response"}, status : {201, 300, 500}, body : {Garbage}]

\* str.strip()
Strip(s) == IF s = "   " THEN "" ELSE s

\* classify_json.get('data') is truthy
HasData(classify_json) == Truthy(classify_json.data)

\* hs6_code after the classification response was read: None or the code
Hs6Code(classify_json) ==
    IF HasData(classify_json)
    THEN LET hs6_code_raw == Field(classify_json.data, "hsCode", Str(""))
         IN  IF hs6_code_raw.s # "" /\ Strip(hs6_code_raw.s) # ""
             THEN hs6_code_raw
             ELSE Null
    ELSE Null

\* requires_interaction
RequiresInteraction(classify_json) ==
    /\ HasData(classify_json)
    /\ Truthy(classify_json.data.currentQuestionInteraction)
    /\ ~Truthy(Field(classify_json.data, "hsCode", Str("")))

\* classify_json.get('data', {}).get('hsCode', 'N/A') in the trace text: an
\* AttributeError when the key data holds null
RawHsCodeFails(classify_json) == classify_json.data.t = "null"

ServerError(message) == Reply(500, [error |-> message])

VerificationFailed ==
    Reply(200,
        [verification_failed |-> TRUE,
         error |-> "Description insufficient for classification - may require more specific details or interactive classification"])

\* verification is on and stage 1 produced no code
ShortCircuits(verify_description, hs6_code) ==
    hs6_code.t = "null" /\ Truthy(verify_description)

\* get_region_for_country
get_region_for_country(destination_country) ==
    CASE IsStr(destination_country, "US") -> "MA"
      [] IsStr(destination_country, "CA") -> "ON"
      [] IsStr(destination_country, "MX") -> "DF"
      [] OTHER -> ""

\* the request document of the compliance-quote call, or the exception raised
\* while building it
QuotePayload(data, hs6_code, e) ==
    LET auth == get_avalara_auth_header(e.AVALARA_TOKEN)
        company == CompanyId(e.AVALARA_COMPANY_ID)
        destination_country == Get(data, "destination_country", Str("US"))
    IN  IF ~auth.ok THEN [ok |-> FALSE, error |-> auth.error]
        ELSE IF ~company.ok THEN [ok |-> FALSE, error |-> company.error]
        ELSE [ok |-> TRUE,
              payload |->
                [id |-> "classification-request",
                 companyId |-> company.value,
                 shipFrom |-> Get(data, "coo", Str("CN")),
                 shipTo |-> destination_country,
                 region |-> get_region_for_country(destination_country),
                 description |-> data.description,
                 hs_code |-> hs6_code,
                 type |-> "QUOTE_ENHANCED10"]]

\* the prefix classify_hs puts before the message of an exception of
\* response.json(): that of the except clause that catches its class
JsonErrorPrefix(jsonError) ==
    IF jsonError = "RequestException" THEN "Network error: " ELSE "Unexpected error: "

\* classify_hs from the classification response to the compliance-quote call:
\* a reply, or the call to make; jsonError is the class of the exception
\* response.json() raises for a body that is no JSON
AfterClassification(data, o, e, jsonError) ==
    IF o.kind = "transport"
    THEN [reply |-> TRUE, resp |-> ServerError("Network error: " \o TransportErrorText)]
    ELSE IF o.status # 200
    THEN [reply |-> TRUE, resp |-> ServerError("Classification API error: " \o o.body.text)]
    ELSE IF ~o.body.parsable
    THEN [reply |-> TRUE, resp |-> ServerError(JsonErrorPrefix(jsonError) \o JsonErrorText)]
    ELSE LET classify_json == o.body.value
             hs6_code == Hs6Code(classify_json)
             built == QuotePayload(data, hs6_code, e)
         IN  IF hs6_code.t = "null" /\ RawHsCodeFails(classify_json)
             THEN [reply |-> TRUE,
                   resp |-> ServerError("Unexpected error: 'NoneType' object has no attribute 'get'")]
             ELSE IF ShortCircuits(Get(data, "verify_description", Bool(FALSE)), hs6_code)
             THEN [reply |-> TRUE, resp |-> VerificationFailed]
             ELSE IF ~built.ok
             THEN [reply |-> TRUE, resp |-> ServerError("Unexpected error: " \o built.error)]
             ELSE [reply |-> FALSE, hs6_code |-> hs6_code, payload |-> built.payload]

\* avalara_json.get('globalCompliance', [{}])[0].get('quote', {})
\*     .get('lines', [{}])[0].get('hsCode'): None for a missing key, an
\* IndexError for an empty list
AvalaraHsCode(avalara_json) ==
    LET gc == Field(avalara_json, "globalCompliance", Arr(<<EmptyObject>>))
    IN  IF Len(gc.a) = 0 THEN [ok |-> FALSE]
        ELSE LET quote == Field(gc.a[1], "quote", EmptyObject)
                 lines == Field(quote, "lines", Arr(<<EmptyObject>>))
             IN  IF Len(lines.a) = 0 THEN [ok |-> FALSE]
                 ELSE [ok |-> TRUE, value |-> Field(lines.a[1], "hsCode", Null)]

\* the final HS code: the compliance-quote service's, else stage 1's, else an error
Resolve(hs_code, hs6_code) ==
    IF Truthy(hs_code)
    THEN Reply(200, [hs_code |-> hs_code, description |-> "Classified via 3CEOnline + Avalara"])
    ELSE IF Truthy(hs6_code)
    THEN Reply(200, [hs_code |-> hs6_code, description |-> "Classified via 3CEOnline (HS6)"])
    ELSE ServerError("No HS code found from either classification or quoting API")

\* classify_hs after the compliance-quote call has ended with outcome o
AfterQuote(hs6_code, o, jsonError) ==
    IF o.kind = "transport"
    THEN ServerError("Network error: " \o TransportErrorText)
    ELSE IF RaisesForStatus(o.status)
    THEN ServerError("Network error: " \o HttpErrorText(o.status))
    ELSE IF ~o.body.parsable
    THEN ServerError(JsonErrorPrefix(jsonError) \o JsonErrorText)
    ELSE IF ~AvalaraHsCode(o.body.value).ok
    THEN ServerError("Unexpected error: list index out of range")
    ELSE Resolve(AvalaraHsCode(o.body.value).value, hs6_code)

(***************************************************************************)
(* POST /export_excel                                                      *)
(***************************************************************************)
\* the most vendors one export request carries
MaxVendors == 2

\* a vendor's duty line as the client sends it back; rate_percent in
\* hundredths of a percentage point
ExportLine(description, rate_percent) ==
    [t |-> "obj", description |-> description, rate_percent |-> Num(rate_percent)]

\* a vendor of the request: cost in cents, total_duty_amount in hundredths of
\* a cent
Vendor(name, cost, quantity, duty_lines, total_duty_rate, total_duty_amount) ==
    [t |-> "obj", name |-> name, vendor_country |-> Absent, coo |-> Str("CN"),
     cost |-> cost, quantity |-> quantity, duty_lines |-> duty_lines,
     total_duty_rate |-> total_duty_rate, total_duty_amount |-> total_duty_amount]

ExportVendors ==
    {Vendor(Str("Acme"), Num(Cents(100, 0)), Num(5),
            Arr(<<ExportLine(Str("X"), 500)>>), Str("5.00%"), Num(250000)),
     Vendor(Str("Bolt"), Num(Cents(100, 0)), Num(5),
            Arr(<<ExportLine(Str("Y"), 1000), ExportLine(Str("X"), 500)>>),
            Str("15.00%"), Num(750000)),
     Vendor(Absent, Num(Cents(12, 33)), Num(3),
            Arr(<<ExportLine(Str("X"), 500), ExportLine(Str("X"), 1000)>>),
            Str("15.00%"), Num(55485)),
     Vendor(Absent, Absent, Absent, Absent, Absent, Absent),
     Vendor(Str("Dyn"), Num(Cents(100, 0)), Num(5), Arr(<<>>), Str("0.00%"), Num(0)),
     Vendor(Str("Echo"), Num(Cents(800, 0)), Num(1),
            Arr(<<ExportLine(Str("Unknown Duty"), 0), ExportLine(Str("Y"), 1000)>>),
            Str("10.00%"), Num(800000)),
     Vendor(Str("Fox"), Str("100"), Num(5),
            Arr(<<ExportLine(Str("X"), 500)>>), Str("5.00%"), Num(250000)),
     Vendor(Str("Gulf"), Num(Cents(100, 0)), Num(5),
            Arr(<<ExportLine(Str("Y"), 1000)>>), Absent, Absent),
     Vendor(Str("Hawk"), Num(Cents(100, 0)), Num(5),
            Arr(<<ExportLine(Absent, 500)>>), Str("5.00%"), Num(250000))}

VendorLists == UNION {[1..n -> ExportVendors] : n \in 0..MaxVendors}

FormData(hs_code, spi_applicable) ==
    [t |-> "obj", import_date |-> Absent, import_country |-> Str("US"), part_sku |-> Absent,
     description |-> Str("cotton t-shirt"), hs_code |-> hs_code, order_qty |-> Absent,
     spi_applicable |-> spi_applicable]

\* the {} default of data.get('formData', {}): no key at all
EmptyForm ==
    [t |-> "obj", import_date |-> Absent, import_country |-> Absent, part_sku |-> Absent,
     description |-> Absent, hs_code |-> Absent, order_qty |-> Absent, spi_applicable |-> Absent]

ExportBodies ==
    [formData : {Absent, FormData(Str("6109.10.00"), Bool(TRUE))},
     vendors : {Absent} \cup {Arr(v) : v \in VendorLists}]

\* the descriptions in use, in the order Python compares strings
DescriptionOrder == <<"Unknown Duty", "X", "Y">>

\* vendor.get('duty_lines', [])
LinesOf(vendor) == Field(vendor, "duty_lines", Arr(<<>>)).a

AllDutyTypes_intersection(vendors) ==
    LET common == {d \in {DescriptionOrder[k] : k \in 1..Len(DescriptionOrder)} :
                     \A i \in 1..Len(vendors) :
                        \E j \in 1..Len(LinesOf(vendors[i])) :
                            LinesOf(vendors[i])[j].description = Str(d)}
    IN  SelectSeq(DescriptionOrder, LAMBDA d : d \in common)

\* all_duty_types: the descriptions of all duty lines of all vendors, each
\* once, sorted
AllDutyTypes(vendors) ==
    LET found == UNION {{LinesOf(vendors[i])[j].description.s :
                            j \in 1..Len(LinesOf(vendors[i]))} : i \in 1..Len(vendors)}
    IN  SelectSeq(DescriptionOrder, LAMBDA d : d \in found)

\* f"${x:.2f}" of an amount in hundredths of a cent, rounded to the nearest
\* cent (the amounts in use are never halfway between two cents)
Dollars2(amount) ==
    LET cents == (amount + 50) \div 100
    IN  "$" \o ToString(cents \div 100) \o "." \o Digit2(cents % 100)

\* the first duty line of the vendor with the description: its rate, or 'N/A'
DutyValue(vendor, duty_type) ==
    LET lines == LinesOf(vendor)
        matching == {j \in 1..Len(lines) : lines[j].description = Str(duty_type)}
    IN  IF matching = {}
        THEN Str("N/A")
        ELSE Str(Percent2(lines[CHOOSE j \in matching : \A k \in matching : j <= k].rate_percent.n))

\* a row of the vendor table: a label and one cell per vendor
Row(label, cells) == [label |-> label, cells |-> cells]

LandedCost_withoutDuty(vendor) ==
    Field(vendor, "cost", Num(0)).n * Field(vendor, "quantity", Num(0)).n * 100

\* total_landed = cost * quantity + total_duty_amount, in hundredths of a cent
LandedCost(vendor) ==
    Field(vendor, "cost", Num(0)).n * Field(vendor, "quantity", Num(0)).n * 100
        + Field(vendor, "total_duty_amount", Num(0)).n

\* product_info: the rows of the product section
ProductInfo(form_data) ==
    <<[label |-> "Ship Date:", value |-> Field(form_data, "import_date", Str("N/A"))],
      [label |-> "Destination:", value |-> Field(form_data, "import_country", Str("N/A"))],
      [label |-> "Part #/SKU:", value |-> Field(form_data, "part_sku", Str("N/A"))],
      [label |-> "Product Description:", value |-> Field(form_data, "description", Str("N/A"))],
      [label |-> "Tariff Code (HS Code):", value |-> Field(form_data, "hs_code", Str("N/A"))],
      [label |-> "Order Quantity:", value |-> Field(form_data, "order_qty", Str("N/A"))],
      [label |-> "SPI Applicable:",
       value |-> IF Truthy(Field(form_data, "spi_applicable", Null)) THEN Str("Yes") ELSE Str("No")]>>

\* the rows of the vendor table, top to bottom
VendorTable(vendors) ==
    LET all_duty_types == AllDutyTypes(vendors)
        columns == 1..Len(vendors)
    IN  <<Row("Metric",
              [i \in columns |-> Field(vendors[i], "name", Str("Vendor " \o ToString(i)))]),
          Row("Vendor Country",
              [i \in columns |-> Field(vendors[i], "vendor_country", Str("N/A"))]),
          Row("Country of Origin", [i \in columns |-> Field(vendors[i], "coo", Str("N/A"))]),
          Row("COGS per Unit",
              [i \in columns |-> Str(Dollars2(Field(vendors[i], "cost", Num(0)).n * 100))]),
          Row("Quantity",
              [i \in columns |-> Str(ToString(Field(vendors[i], "quantity", Num(0)).n))]),
          Row("Duty Breakdown", [i \in columns |-> Null])>>
        \o [k \in 1..Len(all_duty_types) |->
                Row(all_duty_types[k],
                    [i \in columns |-> DutyValue(vendors[i], all_duty_types[k])])]
        \o <<Row("Total Duty Rate",
                 [i \in columns |-> Field(vendors[i], "total_duty_rate", Str("N/A"))]),
             Row("Total Duty Amount",
                 [i \in columns |->
                    Str(Dollars2(Field(vendors[i], "total_duty_amount", Num(0)).n))]),
             Row("Total Landed Cost", [i \in columns |-> Str(Dollars2(LandedCost(vendors[i])))])>>

\* the message of the first exception raised while the sheet is built, ""
\* when there is none: a duty line without description (KeyError), a cost
\* that is no number (ValueError of the format)
ExportError(vendors) ==
    IF \E i \in 1..Len(vendors) : \E j \in 1..Len(LinesOf(vendors[i])) :
            LinesOf(vendors[i])[j].description = Absent
    THEN "'description'"
    ELSE IF \E i \in 1..Len(vendors) : Field(vendors[i], "cost", Num(0)).t # "num"
    THEN "Unknown format code 'f' for object of type 'str'"
    ELSE ""

\* the response of export_excel
export_excel(data) ==
    LET form_data == Field(data, "formData", EmptyForm)
        vendors == Field(data, "vendors", Arr(<<>>)).a
    IN  IF vendors = <<>>
        THEN Reply(400, [error |-> "No vendor data to export"])
        ELSE IF ExportError(vendors) # ""
        THEN Reply(500, [error |-> ExportError(vendors)])
        ELSE Reply(200,
                [mimetype |-> "application/vnd.openxmlformats-officedocument.spreadsheetml.sheet",
                 attachment |-> [title |-> "Tariff Calculations",
                                 product_info |-> ProductInfo(form_data),
                                 table |-> VendorTable(vendors)]])

(***************************************************************************)
(* Requests                                                                *)
(***************************************************************************)
NoAuth == [given |-> FALSE]
BasicAuth(u, p) == [given |-> TRUE, username |-> u, password |-> p]

Credentials ==
    {NoAuth, BasicAuth(VALID_USER, VALID_PASS), BasicAuth("guest", VALID_PASS),
     BasicAuth(VALID_USER, "letmein")}

CalculateBodies ==
    [hs_code : {Absent, Str("8517.62.00"), Str("6109.10.00")},
     country_of_origin : {Absent, Str("Not Specified"), Str("DE"), Str("CN"), Str("MX"),
                          Str("VN"), Str("RU")},
     cost_per_unit : {Absent, Null, Str("100"), Num(0), Num(Cents(799, 99)),
                      Num(Cents(800, 0)), Num(Cents(100, 0))},
     quantity : {Absent, Str("5"), Num(0), Num(1), Num(5), Num(10)},
     vendor_country : {Absent},
     calculation_method : {Absent, Str("standard"), Str("preferential"), Str("express")}]

VendorBodies ==
    [description : {Str("cotton t-shirt")},
     hs_code : {Absent, Null, Str("6109.10.00")},
     coo : {Absent, Str("CN"), Str("Not Specified")},
     cost : {Absent, Str("abc"), Str("12.50"), Num(0), Num(Cents(100, 0))},
     quantity : {Absent, Str("x"), Num(0), Num(5)},
     import_country : {Absent, Null, Str("us")},
     import_date : {Absent},
     spi_applicable : {Absent, Bool(TRUE)}]

ClassifyBodies ==
    [description : {Absent, Str(""), Str("cotton t-shirt")},
     coo : {Absent, Str("VN")},
     destination_country : {Absent, Str("CA")},
     verify_description : {Absent, Bool(FALSE), Bool(TRUE)}]

\* GET requests carry no body; /api/hs-code/<code> has the code in its path
NoBody == [none |-> TRUE]
PathCodes == [code : {"6109.10.00", "8528.72.64", "0000.00.00"}]

Requests ==
    [endpoint : {"/api/calculate"}, auth : Credentials, body : CalculateBodies]
    \cup [endpoint : {"/calculate_vendor"}, auth : Credentials, body : VendorBodies]
    \cup [endpoint : {"/classify_hs"}, auth : Credentials, body : ClassifyBodies]
    \cup [endpoint : {"/export_excel"}, auth : Credentials, body : ExportBodies]
    \cup [endpoint : {"/", "/api/countries", "/api/hs-codes", "/api/health"},
          auth : Credentials, body : {NoBody}]
    \cup [endpoint : {"/api/hs-code/<code>"}, auth : Credentials, body : PathCodes]

Environments ==
    {[AVALARA_TOKEN |-> Str("dG9rZW4="), AVALARA_COMPANY_ID |-> Str("123")],
     [AVALARA_TOKEN |-> Null, AVALARA_COMPANY_ID |-> Str("123")],
     [AVALARA_TOKEN |-> Str("dG9rZW4="), AVALARA_COMPANY_ID |-> Str("acme")]}

(***************************************************************************)
(* The service                                                             *)
(***************************************************************************)
NoLocal == [none |-> TRUE]

Init ==
    /\ pc = "idle"
    /\ req = [endpoint |-> "", auth |-> NoAuth, body |-> [none |-> TRUE]]
    /\ resp = NoResp
    /\ calls = <<>>
    /\ estimator = <<>>
    /\ adapter = <<>>
    /\ local = NoLocal
    /\ env \in Environments

\* a request arrives
Receive ==
    /\ pc = "idle"
    /\ \E r \in Requests : req' = r
    /\ pc' = "received"
    /\ UNCHANGED <<resp, calls, estimator, adapter, local, env>>

Authorized_userOnly(auth) == auth.given /\ auth.username = VALID_USER

Authorized(auth) ==
    auth.given /\ auth.username = VALID_USER /\ auth.password = VALID_PASS

Unauthorized ==
    [status |-> 401, body |-> [text |-> "Unauthorized"], headers |-> {"WWW-Authenticate"}]

\* auth_required.decorated: answer 401, or run the handler
decorated ==
    /\ pc = "received"
    /\ IF Authorized(req.auth)
       THEN /\ pc' = "handler"
            /\ UNCHANGED resp
       ELSE /\ pc' = "done"
            /\ resp' = Unauthorized
    /\ UNCHANGED <<req, calls, estimator, adapter, local, env>>

CalculateHandler ==
    /\ pc = "handler"
    /\ req.endpoint = "/api/calculate"
    /\ \E rnd \in Draws :
        LET out == calculate(req.body, rnd)
        IN  /\ resp' = out.resp
            /\ estimator' = out.estimator
    /\ pc' = "done"
    /\ UNCHANGED <<req, calls, adapter, local, env>>

\* calculate_vendor up to the outbound call of call_global_compliance_api
CalculateVendorCall ==
    /\ pc = "handler"
    /\ req.endpoint = "/calculate_vendor"
    /\ LET read == VendorArguments(req.body)
           built == BuildPayload(read.args, env)
       IN  IF ~read.ok
           THEN /\ resp' = Unhandled(read.error)
                /\ pc' = "done"
                /\ UNCHANGED <<calls, adapter, local>>
           ELSE IF ~built.ok
           THEN /\ adapter' = <<ExceptionResult(built.error, Null)>>
                /\ resp' = VendorResponse(ExceptionResult(built.error, Null))
                /\ pc' = "done"
                /\ UNCHANGED <<calls, local>>
           ELSE /\ calls' = Append(calls, [service |-> "compliance", timeout |-> 30,
                                           payload |-> built.payload])
                /\ local' = [args |-> read.args, payload |-> built.payload]
                /\ pc' = "await_compliance"
                /\ UNCHANGED <<resp, adapter>>
    /\ UNCHANGED <<req, estimator, env>>

\* the outbound call ends; call_global_compliance_api returns and
\* calculate_vendor answers
CalculateVendorReturn ==
    /\ pc = "await_compliance"
    /\ req.endpoint = "/calculate_vendor"
    /\ \E o \in ComplianceOutcomes, jsonError \in JsonErrorClasses :
        LET result == ComplianceResult(local.args, local.payload, o, jsonError)
        IN  /\ calls' = [calls EXCEPT ![Len(calls)] = @ @@ [outcome |-> o]]
            /\ adapter' = <<result>>
            /\ resp' = VendorResponse(result)
    /\ pc' = "done"
    /\ UNCHANGED <<req, estimator, local, env>>

\* classify_hs up to the call of the classification service
ClassifyCall ==
    /\ pc = "handler"
    /\ req.endpoint = "/classify_hs"
    /\ IF ~Truthy(Get(req.body, "description", Str("")))
       THEN /\ resp' = Reply(400, [error |-> "Description is required"])
            /\ pc' = "done"
            /\ UNCHANGED calls
       ELSE /\ calls' = Append(calls, [service |-> "classification", timeout |-> 10,
                                       payload |-> [proddesc |-> req.body.description]])
            /\ pc' = "await_classification"
            /\ UNCHANGED resp
    /\ UNCHANGED <<req, estimator, adapter, local, env>>

\* the classification call ends; classify_hs answers or calls the
\* compliance-quote service
ClassifyReturn ==
    /\ pc = "await_classification"
    /\ \E o \in ClassifyOutcomes, jsonError \in JsonErrorClasses :
        LET step == AfterClassification(req.body, o, env, jsonError)
            ended == [calls EXCEPT ![Len(calls)] = @ @@ [outcome |-> o]]
        IN  IF step.reply
            THEN /\ resp' = step.resp
                 /\ calls' = ended
                 /\ pc' = "done"
                 /\ UNCHANGED local
            ELSE /\ calls' = Append(ended, [service |-> "compliance", timeout |-> 10,
                                            payload |-> step.payload])
                 /\ local' = [hs6_code |-> step.hs6_code]
                 /\ pc' = "await_compliance"
                 /\ UNCHANGED resp
    /\ UNCHANGED <<req, estimator, adapter, env>>

\* the compliance-quote call ends; classify_hs answers
QuoteReturn ==
    /\ pc = "await_compliance"
    /\ req.endpoint = "/classify_hs"
    /\ \E o \in ComplianceOutcomes, jsonError \in JsonErrorClasses :
        /\ resp' = AfterQuote(local.hs6_code, o, jsonError)
        /\ calls' = [calls EXCEPT ![Len(calls)] = @ @@ [outcome |-> o]]
    /\ pc' = "done"
    /\ UNCHANGED <<req, estimator, adapter, local, env>>

\* export_excel: the workbook is built, saved and sent
ExportExcel ==
    /\ pc = "handler"
    /\ req.endpoint = "/export_excel"
    /\ resp' = export_excel(req.body)
    /\ local' = IF resp'.status = 200 THEN [workbook |-> resp'.body.attachment] ELSE local
    /\ pc' = "done"
    /\ UNCHANGED <<req, calls, estimator, adapter, env>>

\* index: the main page
Index ==
    /\ pc = "handler"
    /\ req.endpoint = "/"
    /\ resp' = Reply(200, [template |-> "index.html", countries |-> COUNTRIES])
    /\ pc' = "done"
    /\ UNCHANGED <<req, calls, estimator, adapter, local, env>>

\* get_countries
GetCountries ==
    /\ pc = "handler"
    /\ req.endpoint = "/api/countries"
    /\ resp' = Reply(200, [countries |-> COUNTRIES])
    /\ pc' = "done"
    /\ UNCHANGED <<req, calls, estimator, adapter, local, env>>

\* get_hs_codes
GetHsCodes ==
    /\ pc = "handler"
    /\ req.endpoint = "/api/hs-codes"
    /\ resp' = Reply(200, [hs_codes |-> HsCodeKeys])
    /\ pc' = "done"
    /\ UNCHANGED <<req, calls, estimator, adapter, local, env>>

\* get_hs_code_info: the table entry of the code, or 404
GetHsCodeInfo ==
    /\ pc = "handler"
    /\ req.endpoint = "/api/hs-code/<code>"
    /\ resp' = IF req.body.code \in DOMAIN HS_CODES
                THEN Reply(200, [hs_code |-> req.body.code,
                                 description |-> HsDescription(req.body.code),
                                 baseline_rate |-> HS_CODES[req.body.code]])
                ELSE Reply(404, [error |-> "HS Code not found"])
    /\ pc' = "done"
    /\ UNCHANGED <<req, calls, estimator, adapter, local, env>>

\* health
Health ==
    /\ pc = "handler"
    /\ req.endpoint = "/api/health"
    /\ resp' = Reply(200, [status |-> "ok"])
    /\ pc' = "done"
    /\ UNCHANGED <<req, calls, estimator, adapter, local, env>>

\* the response is sent; nothing of the request is kept
Finish ==
    /\ pc = "done"
    /\ pc' = "idle"
    /\ req' = [endpoint |-> "", auth |-> NoAuth, body |-> [none |-> TRUE]]
    /\ resp' = NoResp
    /\ calls' = <<>>
    /\ estimator' = <<>>
    /\ adapter' = <<>>
    /\ local' = NoLocal
    /\ UNCHANGED env

Next ==
    \/ Receive
    \/ decorated
    \/ CalculateHandler
    \/ CalculateVendorCall
    \/ CalculateVendorReturn
    \/ ClassifyCall
    \/ ClassifyReturn
    \/ QuoteReturn
    \/ ExportExcel
    \/ Index
    \/ GetCountries
    \/ GetHsCodes
    \/ GetHsCodeInfo
    \/ Health
    \/ Finish

Spec == Init /\ [][Next]_vars

(***************************************************************************)
(* Properties                                                              *)
(***************************************************************************)
\* the request has been served by the handler body of the given endpoint
Served(endpoint) == pc = "done" /\ req.endpoint = endpoint /\ Authorized(req.auth)

\* calculate_tariff has been invoked and its result is the response body
Estimated == Served("/api/calculate") /\ Len(estimator) = 1 /\ resp.status = 200

\* the method-specific rate the result carries: spi_tariff_rate or ieepa_tariff_rate
MethodRate(r) ==
    IF "spi_tariff_rate" \in DOMAIN r THEN r.spi_tariff_rate ELSE r.ieepa_tariff_rate

ComponentSum(r) ==
    r.baseline_tariff_rate + r.reciprocal_tariff_rate + r.chapter_301_tariff_rate + MethodRate(r)

SpecialOrigins == {"CN", "MX", "CA", "VN", "RU"}

\* C1: calculate_tariff applies the de-minimis exemption exactly when
\* cost_per_unit * quantity is below 800 dollars: then the flag is "true" and
\* the duty amount and total rate are 0; from 800 dollars on the flag is
\* "false" and the duty amount is customs value * (sum of the four rates) / 100.
C1_DeMinimisBoundary ==
    Estimated =>
        LET a == estimator[1]
            r == resp.body
            cv == a.cost_per_unit * a.quantity
        IN  IF cv < 80000
            THEN /\ r.DUTY_DEMINIMIS_APPLIED = "true"
                 /\ r.duty_amount = 0
                 /\ r.total_tariff_rate = 0
            ELSE /\ r.DUTY_DEMINIMIS_APPLIED = "false"
                 /\ r.duty_amount = cv * ComponentSum(r)

\* C1 witness: a customs value of exactly 800.00 dollars with a positive rate
\* has been estimated and is not exempt
C1_Witness ==
    /\ Estimated
    /\ estimator[1].cost_per_unit * estimator[1].quantity = 80000
    /\ resp.body.duty_amount > 0
    /\ resp.body.DUTY_DEMINIMIS_APPLIED = "false"

\* C2 as stated: for an origin outside {CN, MX, CA, VN, RU} the reciprocal,
\* chapter-301 and method-specific rates of the result are 0 and the result's
\* total rate equals the baseline rate of the HS code.
C2_TotalRateIsBaseline ==
    (Estimated /\ ~CooIn(estimator[1].coo, SpecialOrigins)) =>
        /\ resp.body.reciprocal_tariff_rate = 0
        /\ resp.body.chapter_301_tariff_rate = 0
        /\ MethodRate(resp.body) = 0
        /\ resp.body.total_tariff_rate = BaselineRate(estimator[1].hs_code)

\* C2 amended: for an origin outside {CN, MX, CA, VN, RU} the three surcharge
\* rates of the result are 0, and the result's total rate is the baseline rate
\* of the HS code when the customs value is at least 800 dollars and 0 when
\* the shipment is exempt.
C2_TotalRateIsBaselineUnlessExempt ==
    (Estimated /\ ~CooIn(estimator[1].coo, SpecialOrigins)) =>
        /\ resp.body.reciprocal_tariff_rate = 0
        /\ resp.body.chapter_301_tariff_rate = 0
        /\ MethodRate(resp.body) = 0
        /\ resp.body.total_tariff_rate =
              IF estimator[1].cost_per_unit * estimator[1].quantity < 80000
              THEN 0
              ELSE BaselineRate(estimator[1].hs_code)

\* C2 witness: a non-exempt shipment of a dutiable HS code from Germany
C2_Witness ==
    /\ Estimated
    /\ IsStr(estimator[1].coo, "DE")
    /\ IsStr(estimator[1].hs_code, "6109.10.00")
    /\ resp.body.total_tariff_rate = 165

\* C3: an authenticated POST /api/calculate whose country_of_origin is
\* "Not Specified" is answered 400 and never invokes calculate_tariff.
C3_NotSpecifiedRejected ==
    (Served("/api/calculate") /\ IsStr(req.body.country_of_origin, "Not Specified")) =>
        resp.status = 400 /\ estimator = <<>>

\* C3 witness: a request that is valid but for its "Not Specified" origin
C3_Witness ==
    /\ Served("/api/calculate")
    /\ IsStr(req.body.country_of_origin, "Not Specified")
    /\ req.body.hs_code.t = "str"
    /\ req.body.cost_per_unit = Num(10000)
    /\ req.body.quantity = Num(5)
    /\ resp.status = 400

\* a required field of POST /api/calculate is missing or invalid
InvalidCalculateBody(data) ==
    \/ MissingFields(data) # {}
    \/ data.cost_per_unit.t # "num"
    \/ data.quantity.t # "num"
    \/ data.cost_per_unit.n <= 0
    \/ data.quantity.n <= 0

\* C4: an authenticated POST /api/calculate with a missing or invalid
\* required field is answered 400 and never invokes calculate_tariff.
C4_InvalidFieldsRejected ==
    (Served("/api/calculate") /\ InvalidCalculateBody(req.body)) =>
        resp.status = 400 /\ estimator = <<>>

\* call_global_compliance_api has returned after its outbound call ended
Quoted ==
    /\ Served("/calculate_vendor")
    /\ Len(calls) = 1
    /\ "outcome" \in DOMAIN calls[1]
    /\ Len(adapter) = 1

\* the outbound call ended with a 2xx response whose body is JSON
Answered(o) == o.kind = "response" /\ o.status \in 200..299 /\ o.body.parsable

\* the document has a duty-breakdown array
HasBreakdown(d) ==
    /\ d.globalCompliance.t = "arr"
    /\ Len(d.globalCompliance.a) > 0
    /\ d.globalCompliance.a[1].quote.t = "obj"
    /\ d.globalCompliance.a[1].quote.lines.t = "arr"
    /\ Len(d.globalCompliance.a[1].quote.lines.a) > 0
    /\ d.globalCompliance.a[1].quote.lines.a[1].calculationSummary.t = "obj"
    /\ d.globalCompliance.a[1].quote.lines.a[1].calculationSummary.dutyGranularity.t = "arr"

Breakdown(d) == d.globalCompliance.a[1].quote.lines.a[1].calculationSummary.dutyGranularity.a

EntryRate(entry) == IF entry.rate.t = "num" THEN entry.rate.n ELSE 0

RECURSIVE SumEntryRates(_)
SumEntryRates(entries) ==
    IF entries = <<>> THEN 0 ELSE EntryRate(entries[1]) + SumEntryRates(Tail(entries))

\* C5: on a successful upstream response call_global_compliance_api returns
\* one duty line per entry of the duty-breakdown array, in the same order,
\* total_duty_rate is the sum of the entries' rates and total_duty_amount is
\* quantity * cost_per_unit * total_duty_rate.
C5_FlattenAndSum ==
    (Quoted /\ Answered(calls[1].outcome) /\ HasBreakdown(calls[1].outcome.body.value)) =>
        LET entries == Breakdown(calls[1].outcome.body.value)
            r == adapter[1]
        IN  /\ r.success
            /\ Len(r.duty_lines) = Len(entries)
            /\ \A i \in 1..Len(entries) :
                /\ r.duty_lines[i].rate = EntryRate(entries[i])
                /\ entries[i].description.t = "str" =>
                        r.duty_lines[i].description = entries[i].description
                /\ entries[i].type.t = "str" => r.duty_lines[i].type = entries[i].type
            /\ r.total_duty_rate = SumEntryRates(entries)
            /\ r.total_duty_amount = local.args.quantity * local.args.cost_per_unit * r.total_duty_rate

\* C5 witness: entries with the rates 0.05 and 0.10 gave a total rate of 0.15
\* on 5 units of 100 dollars
C5_Witness ==
    /\ Quoted
    /\ Answered(calls[1].outcome)
    /\ HasBreakdown(calls[1].outcome.body.value)
    /\ Len(Breakdown(calls[1].outcome.body.value)) = 2
    /\ adapter[1].success
    /\ adapter[1].duty_lines[1].rate = 5
    /\ adapter[1].duty_lines[2].rate = 10
    /\ adapter[1].total_duty_rate = 15
    /\ adapter[1].total_duty_amount = 5 * 10000 * 15

\* C6 as stated: every return of call_global_compliance_api carries the request
\* document built for the call; request_payload is never absent or null.
C6_PayloadAlwaysReturned ==
    \A i \in 1..Len(adapter) :
        /\ "request_payload" \in DOMAIN adapter[i]
        /\ adapter[i].request_payload # Null

\* C6 amended: every return carries the key request_payload; it holds the
\* request document sent whenever the outbound call was issued (success,
\* transport error, error status, unparsable response) and null exactly when
\* the function failed before the document was built.
C6_PayloadReturnedOnceBuilt ==
    \A i \in 1..Len(adapter) :
        /\ "request_payload" \in DOMAIN adapter[i]
        /\ IF calls = <<>>
           THEN adapter[i].request_payload = Null /\ ~adapter[i].success
           ELSE adapter[i].request_payload = calls[1].payload

\* C6 witness: the upstream body was no JSON and the failure carries the
\* request document
C6_Witness ==
    /\ Quoted
    /\ calls[1].outcome.kind = "response"
    /\ calls[1].outcome.status = 200
    /\ ~calls[1].outcome.body.parsable
    /\ ~adapter[1].success
    /\ "status_code" \notin DOMAIN adapter[1]
    /\ adapter[1].request_payload = calls[1].payload
    /\ adapter[1].request_payload.hscode = "61091000"

\* the outbound call failed as the claims word it: no response, or a status
\* outside 2xx
CallFailed(o) == o.kind = "transport" \/ o.status \notin 200..299

\* the outbound call ended without a response or with a 4xx or 5xx status
CallErrored(o) == o.kind = "transport" \/ o.status \in 400..599

\* the outbound call ended with a 3xx response
Redirected(o) == o.kind = "response" /\ o.status \in 300..399

C7_RedirectWitness ==
    /\ Quoted
    /\ Redirected(calls[1].outcome)
    /\ calls[1].outcome.body.parsable
    /\ adapter[1].success
    /\ resp.status = 200

NoHs6Answer(o) ==
    /\ o.kind = "response"
    /\ o.status = 200
    /\ o.body.parsable
    /\ \/ o.body.value.data.t # "obj"
       \/ o.body.value.data.hsCode.t # "str"
       \/ o.body.value.data.hsCode.s \in {"", "   "}

\* C8: when verify_description is set and the classification service answered
\* 200 without an HS6 code, /classify_hs answers 200 with verification_failed
\* and never calls the compliance-quote service.
C8_VerificationShortCircuit ==
    (/\ Served("/classify_hs")
     /\ Truthy(req.body.verify_description)
     /\ Len(calls) >= 1
     /\ "outcome" \in DOMAIN calls[1]
     /\ NoHs6Answer(calls[1].outcome)) =>
        /\ resp.status = 200
        /\ "verification_failed" \in DOMAIN resp.body
        /\ Len(calls) = 1

\* the HS code of the first line of the first quote, when the document has one
ProvidedHsCode(d) ==
    IF /\ d.globalCompliance.t = "arr"
       /\ Len(d.globalCompliance.a) > 0
       /\ d.globalCompliance.a[1].quote.t = "obj"
       /\ d.globalCompliance.a[1].quote.lines.t = "arr"
       /\ Len(d.globalCompliance.a[1].quote.lines.a) > 0
    THEN d.globalCompliance.a[1].quote.lines.a[1].hsCode
    ELSE Absent

\* C9: when the compliance-quote call completes successfully, the hs_code
\* returned is the compliance-quote service's code if it gave one, otherwise
\* the stage-1 HS6 code if there is one, otherwise the answer is a 500
\* without hs_code.
C9_ResolutionPriority ==
    (/\ Served("/classify_hs")
     /\ Len(calls) = 2
     /\ "outcome" \in DOMAIN calls[2]
     /\ Answered(calls[2].outcome)) =>
        LET provided == ProvidedHsCode(calls[2].outcome.body.value)
        IN  IF provided.t = "str"
            THEN resp.status = 200 /\ resp.body.hs_code = provided
            ELSE IF local.hs6_code.t = "str"
            THEN resp.status = 200 /\ resp.body.hs_code = local.hs6_code
            ELSE resp.status = 500 /\ "hs_code" \notin DOMAIN resp.body

CallsTo(service) == {i \in 1..Len(calls) : calls[i].service = service}

\* the call ended in what the code takes for a failure: no response, a 4xx
\* or 5xx status, or, for the classification service, a status other than 200
TakenAsFailure(call) ==
    \/ CallErrored(call.outcome)
    \/ call.service = "classification" /\ call.outcome.status # 200

C17_CustomsValueAndTotalCost ==
    Estimated =>
        LET r == resp.body
            a == estimator[1]
        IN  /\ r.customs_value = a.cost_per_unit * a.quantity
            /\ r.total_cost = r.customs_value * 1000 + r.duty_amount
            /\ (a.hs_code = Str("8517.62.00") /\ a.coo = Str("DE")
                    /\ a.cost_per_unit = Cents(100, 0) /\ a.quantity = 5
                    /\ a.calculation_method = Str("standard"))
                => /\ r.customs_value = Cents(500, 0)
                   /\ r.duty_amount = 0
                   /\ r.total_cost = Cents(500, 0) * 1000

\* a non-exempt estimate with a positive duty amount has been returned
C17_Witness ==
    /\ Estimated
    /\ resp.body.DUTY_DEMINIMIS_APPLIED = "false"
    /\ resp.body.duty_amount > 0
    /\ resp.body.total_cost > resp.body.customs_value * 1000

\* C19: the calculation method selects the method-specific rate of the result.
\* With "preferential" the result has the key spi_tariff_rate (within [0, 10]
\* for origin MX, CA or VN, otherwise 0), no key ieepa_tariff_rate, and no
\* IEEPA amount in its total; with any other method it has ieepa_tariff_rate
\* (within [10, 25] for origin CN or RU, otherwise 0) and no spi_tariff_rate.
C19_MethodSelectsRateKey ==
    Estimated =>
        LET r == resp.body
            a == estimator[1]
            exempt == r.DUTY_DEMINIMIS_APPLIED = "true"
        IN  IF a.calculation_method = Str("preferential")
            THEN /\ "spi_tariff_rate" \in DOMAIN r
                 /\ "ieepa_tariff_rate" \notin DOMAIN r
                 /\ IF CooIn(a.coo, {"MX", "CA", "VN"})
                    THEN r.spi_tariff_rate \in Tenths(0, 0)..Tenths(10, 0)
                    ELSE r.spi_tariff_rate = 0
                 /\ ~exempt => r.total_tariff_rate =
                        r.baseline_tariff_rate + r.reciprocal_tariff_rate
                            + r.chapter_301_tariff_rate + r.spi_tariff_rate
            ELSE /\ "ieepa_tariff_rate" \in DOMAIN r
                 /\ "spi_tariff_rate" \notin DOMAIN r
                 /\ IF CooIn(a.coo, {"CN", "RU"})
                    THEN r.ieepa_tariff_rate \in Tenths(10, 0)..Tenths(25, 0)
                    ELSE r.ieepa_tariff_rate = 0
                 /\ ~exempt => r.total_tariff_rate =
                        r.baseline_tariff_rate + r.reciprocal_tariff_rate
                            + r.chapter_301_tariff_rate + r.ieepa_tariff_rate

\* a preferential estimate for origin CN, where an IEEPA draw would apply
\* under any other method, has been returned and is not exempt
C19_Witness ==
    /\ Estimated
    /\ estimator[1].calculation_method = Str("preferential")
    /\ estimator[1].coo = Str("CN")
    /\ resp.body.DUTY_DEMINIMIS_APPLIED = "false"
    /\ "spi_tariff_rate" \in DOMAIN resp.body

\* an estimate with a method that is neither standard nor preferential
C19_OtherMethodWitness ==
    /\ Estimated
    /\ estimator[1].calculation_method = Str("express")
    /\ estimator[1].coo = Str("RU")
    /\ resp.body.ieepa_tariff_rate >= Tenths(10, 0)

\* C18: when a 2xx response lacks the globalCompliance list, the quote, the
\* lines, the calculation summary or the duty-breakdown array, or has one of
\* them empty, call_global_compliance_api returns success with no duty lines,
\* total_duty_rate 0 and total_duty_amount 0, and no error; an entry without
\* description, rate or type gets 'Unknown Duty', 0 and ''.
C18_MissingLevelsAreEmptySuccess ==
    (Quoted /\ Answered(calls[1].outcome)) =>
        LET d == calls[1].outcome.body.value
            r == adapter[1]
        IN  /\ r.success
            /\ "error" \notin DOMAIN r
            /\ resp.status = 200
            /\ (~HasBreakdown(d) \/ Breakdown(d) = <<>>) =>
                    /\ r.duty_lines = <<>>
                    /\ r.total_duty_rate = 0
                    /\ r.total_duty_amount = 0
            /\ HasBreakdown(d) =>
                    \A i \in 1..Len(Breakdown(d)) :
                        LET entry == Breakdown(d)[i]
                            line == r.duty_lines[i]
                        IN  /\ entry.description = Absent => line.description = Str("Unknown Duty")
                            /\ entry.rate = Absent => line.rate = 0 /\ line.rate_percent = 0
                            /\ entry.type = Absent => line.type = Str("")

\* a 200 response whose first line has no calculation summary was turned
\* into an empty success
C18_Witness ==
    /\ Quoted
    /\ Answered(calls[1].outcome)
    /\ calls[1].outcome.body.value.globalCompliance.t = "arr"
    /\ Len(calls[1].outcome.body.value.globalCompliance.a) > 0
    /\ ~HasBreakdown(calls[1].outcome.body.value)
    /\ adapter[1].success
    /\ adapter[1].duty_lines = <<>>
    /\ resp.status = 200

\* an entry without description and rate became an 'Unknown Duty' line
C18_DefaultsWitness ==
    /\ Quoted
    /\ Answered(calls[1].outcome)
    /\ adapter[1].success
    /\ \E i \in 1..Len(adapter[1].duty_lines) :
            /\ adapter[1].duty_lines[i].description = Str("Unknown Duty")
            /\ adapter[1].duty_lines[i].rate = 0

\* C14 as stated: when the adapter reports a failure, POST /calculate_vendor
\* answers 500 with the error message, the upstream HTTP status code and the
\* upstream error body; when it reports success, the answer is 200 with the
\* duty lines.
C14_FailureCarriesStatusAndBody ==
    Quoted =>
        IF adapter[1].success
        THEN /\ resp.status = 200
             /\ resp.body.duty_lines = adapter[1].duty_lines
        ELSE /\ resp.status = 500
             /\ resp.body.error = adapter[1].error
             /\ resp.body.error_response = ResultGet(adapter[1], "error_response")
             /\ "status_code" \in DOMAIN resp.body
             /\ resp.body.status_code = ResultGet(adapter[1], "status_code")

\* a vendor no duty may be computed for: origin "Not Specified", or a cost
\* or quantity that is a number not above 0
NotCalculable(coo, cost, quantity) ==
    \/ coo = Str("Not Specified")
    \/ cost.t = "num" /\ cost.n <= 0
    \/ quantity.t = "num" /\ quantity.n <= 0

\* C16 as stated: no duty calculation, local or external, is started for a
\* vendor whose origin is "Not Specified", whose cost is not above 0 or whose
\* quantity is not above 0: /calculate_vendor makes no outbound call and
\* /api/calculate makes no estimator call for such input.
C16_NoCalculationForInvalidVendor ==
    /\ (req.endpoint = "/calculate_vendor"
            /\ NotCalculable(req.body.coo, req.body.cost, req.body.quantity))
        => calls = <<>>
    /\ (req.endpoint = "/api/calculate"
            /\ NotCalculable(req.body.country_of_origin, req.body.cost_per_unit,
                             req.body.quantity))
        => estimator = <<>>

\* C15 as stated: an exception raised while /calculate_vendor, /export_excel,
\* /api/calculate or /classify_hs handles a request, reading and converting
\* the body fields included, is caught inside the handler and answered with
\* 500 and the exception message; none escapes the handler.
C15_NoExceptionEscapes ==
    (pc = "done"
        /\ req.endpoint \in {"/calculate_vendor", "/export_excel", "/api/calculate", "/classify_hs"})
    => /\ "unhandled" \notin DOMAIN resp.body
       /\ (Authorized(req.auth) /\ resp.status = 500) => "error" \in DOMAIN resp.body

\* the health endpoint and the reference endpoints
OpenEndpoints == {"/api/health", "/api/countries", "/api/hs-codes", "/api/hs-code/<code>"}

\* C13 as stated: every endpoint other than the health and reference
\* endpoints answers 401 with a WWW-Authenticate header unless the Basic
\* credentials equal the two configured values; the health and reference
\* endpoints answer without any credentials.
C13_OnlyWorkEndpointsNeedCredentials ==
    pc = "done" =>
        IF req.endpoint \in OpenEndpoints
        THEN resp.status # 401
        ELSE IF Authorized(req.auth)
        THEN resp.status # 401
        ELSE resp.status = 401 /\ "WWW-Authenticate" \in resp.headers

\* export_excel has built and sent a workbook
Exported == Served("/export_excel") /\ resp.status = 200

ExportedVendors == req.body.vendors.a
ExportedTable == resp.body.attachment.table

\* the rows between the 'Duty Breakdown' header and the three total rows
DutyRows == SubSeq(ExportedTable, 7, Len(ExportedTable) - 3)

\* the descriptions among the vendor's duty lines
DescriptionsOf(vendor) ==
    IF vendor.duty_lines.t = "arr"
    THEN {vendor.duty_lines.a[j].description.s : j \in 1..Len(vendor.duty_lines.a)}
    ELSE {}

\* a comes before b in the order of Python's string comparison
Before(a, b) ==
    \E k, l \in 1..Len(DescriptionOrder) :
        k < l /\ DescriptionOrder[k] = a /\ DescriptionOrder[l] = b

\* C11: the duty-breakdown rows of the exported sheet are the union of the
\* duty-line descriptions of all vendors, one row per distinct description,
\* in ascending order; a vendor's cell holds the rate of that vendor's
\* (first) duty line with the description, and 'N/A' exactly when the vendor
\* has no duty line with it.
C11_DutyRowsAreSortedUnion ==
    Exported =>
        /\ {DutyRows[k].label : k \in 1..Len(DutyRows)}
                = UNION {DescriptionsOf(ExportedVendors[i]) : i \in 1..Len(ExportedVendors)}
        /\ \A k, l \in 1..Len(DutyRows) : k < l => Before(DutyRows[k].label, DutyRows[l].label)
        /\ \A k \in 1..Len(DutyRows) : \A i \in 1..Len(ExportedVendors) :
            LET cell == DutyRows[k].cells[i]
                vendor == ExportedVendors[i]
                label == DutyRows[k].label
            IN  /\ cell = Str("N/A") <=> label \notin DescriptionsOf(vendor)
                /\ label \in DescriptionsOf(vendor) =>
                    \E j \in 1..Len(vendor.duty_lines.a) :
                        /\ vendor.duty_lines.a[j].description = Str(label)
                        /\ \A m \in 1..(j - 1) : vendor.duty_lines.a[m].description # Str(label)
                        /\ cell = Str(Percent2(vendor.duty_lines.a[j].rate_percent.n))

\* two vendors, one with X only and one with Y before X: the rows are X then
\* Y, and the first vendor's Y cell is 'N/A'
C11_Witness ==
    /\ Exported
    /\ Len(ExportedVendors) = 2
    /\ Len(DutyRows) = 2
    /\ DutyRows[1].label = "X"
    /\ DutyRows[2].label = "Y"
    /\ DutyRows[1].cells = <<Str("5.00%"), Str("5.00%")>>
    /\ DutyRows[2].cells = <<Str("N/A"), Str("10.00%")>>

\* a number, or 0 for a missing field
NumberOr0(v) == IF v.t = "num" THEN v.n ELSE 0

\* C12: the last three rows of the vendor table, right after the duty rows,
\* are 'Total Duty Rate' (the value the vendor supplied, unchanged), 'Total
\* Duty Amount' and 'Total Landed Cost'; a vendor's landed-cost cell is
\* cost * quantity + total_duty_amount, a missing field counting as 0.
C12_TotalRows ==
    Exported =>
        LET n == Len(ExportedTable)
        IN  /\ n = 9 + Len(DutyRows)
            /\ ExportedTable[6].label = "Duty Breakdown"
            /\ \A k \in 1..Len(DutyRows) :
                \E i \in 1..Len(ExportedVendors) :
                    DutyRows[k].label \in DescriptionsOf(ExportedVendors[i])
            /\ ExportedTable[n - 2].label = "Total Duty Rate"
            /\ ExportedTable[n - 1].label = "Total Duty Amount"
            /\ ExportedTable[n].label = "Total Landed Cost"
            /\ \A i \in 1..Len(ExportedVendors) :
                LET vendor == ExportedVendors[i]
                IN  /\ ExportedTable[n - 2].cells[i] =
                            (IF vendor.total_duty_rate = Absent
                             THEN Str("N/A") ELSE vendor.total_duty_rate)
                    /\ ExportedTable[n - 1].cells[i] =
                            Str(Dollars2(NumberOr0(vendor.total_duty_amount)))
                    /\ ExportedTable[n].cells[i] =
                            Str(Dollars2(NumberOr0(vendor.cost) * NumberOr0(vendor.quantity) * 100
                                            + NumberOr0(vendor.total_duty_amount)))

\* 3 units of 12.33 with a duty amount of 5.5485 give a landed cost of 42.54
\* next to a vendor without any field, whose landed cost is 0.00
C12_Witness ==
    /\ Exported
    /\ Len(ExportedVendors) = 2
    /\ ExportedVendors[1].cost = Num(Cents(12, 33))
    /\ ExportedVendors[2].cost = Absent
    /\ ExportedTable[Len(ExportedTable)].label = "Total Landed Cost"
    /\ ExportedTable[Len(ExportedTable)].cells = <<Str("$42.54"), Str("$0.00")>>
    /\ ExportedTable[Len(ExportedTable) - 2].cells = <<Str("15.00%"), Str("N/A")>>

\* the request has no Authorization header, or a username or password that
\* differs from the configured one
Rejected ==
    \/ ~req.auth.given
    \/ req.auth.username # VALID_USER
    \/ req.auth.password # VALID_PASS

\* C20: a request to an endpoint wrapped by auth_required without an
\* Authorization header, or with a wrong username or password, is answered
\* 401 before the handler body runs: no outbound call is made,
\* calculate_tariff is not called and no spreadsheet is produced.
C20_RejectedBeforeHandler ==
    (pc \notin {"idle", "received"} /\ Rejected) =>
        /\ pc = "done"
        /\ resp.status = 401
        /\ "WWW-Authenticate" \in resp.headers
        /\ calls = <<>>
        /\ estimator = <<>>
        /\ adapter = <<>>
        /\ local = NoLocal

\* an export request with the right username and a wrong password, whose
\* vendors would make a sheet, has been answered 401
C20_Witness ==
    /\ pc = "done"
    /\ req.endpoint = "/export_excel"
    /\ req.auth = BasicAuth(VALID_USER, "letmein")
    /\ req.body.vendors # Absent
    /\ Len(req.body.vendors.a) = 2
    /\ ExportError(req.body.vendors.a) = ""
    /\ resp.status = 401
    /\ local = NoLocal

====
